---- MODULE Spec2Model ----
(***************************************************************************)
(* Model of sshforward (src/main.go): main builds one ssh session per      *)
(* configured host and starts one forwardEndpoint goroutine per endpoint;  *)
(* forwardEndpoint binds a local listener and runs an accept loop that     *)
(* dials the remote address over the session and hands the pair of         *)
(* connections to handleClient, which starts the two copy goroutines.      *)
(*                                                                         *)
(* log.Fatal is os.Exit(1): the process stops where it is, deferred calls  *)
(* do not run.  After the exit the variables keep the values they had at   *)
(* the moment of the exit and no action of the program is enabled.         *)
(***************************************************************************)
EXTENDS Integers, Sequences, FiniteSets, TLC

\* ---- bounds ----
\* number of local connections the environment offers to the listeners
MaxConns == 2

\* ---- the shape of the configuration ----
\* HostEndpoints[h] is the number of endpoints of the h-th host of the
\* configuration; endpoints are numbered in configuration order.
HostEndpoints == <<2, 1>>
NumHosts == Len(HostEndpoints)
Hosts == 1..NumHosts

\* the number of endpoints of the hosts before host h
RECURSIVE CountBefore(_)
CountBefore(h) == IF h <= 1 THEN 0 ELSE CountBefore(h - 1) + HostEndpoints[h - 1]

EndpointsBeforeTable == [h \in 1..(NumHosts + 1) |-> CountBefore(h)]
EndpointsBefore(h) == EndpointsBeforeTable[h]

NumEndpoints == EndpointsBefore(NumHosts + 1)
Endpoints == 1..NumEndpoints

\* the endpoints of host h, in configuration order
EndpointsOfTable ==
    [h \in Hosts |-> (EndpointsBefore(h) + 1)..(EndpointsBefore(h) + HostEndpoints[h])]
EndpointsOf(h) == EndpointsOfTable[h]

\* the host an endpoint is listed under
HostOfTable == [e \in Endpoints |-> CHOOSE h \in Hosts : e \in EndpointsOf(h)]
HostOf(e) == HostOfTable[e]

\* the local addresses an endpoint may be configured with (host:port, port # 0)
Addrs == {"127.0.0.1:9001", "127.0.0.1:9002", "127.0.0.1:9003"}

\* the configurations, by the local addresses of the endpoints in order: all
\* distinct, two endpoints of one host with the same address, two endpoints
\* of different hosts with the same address
Configs ==
    { <<"127.0.0.1:9001", "127.0.0.1:9002", "127.0.0.1:9003">>,
      <<"127.0.0.1:9001", "127.0.0.1:9001", "127.0.0.1:9002">>,
      <<"127.0.0.1:9001", "127.0.0.1:9002", "127.0.0.1:9001">> }

Conns == 1..MaxConns
Dirs == {"r2l", "l2r"}

\* Endpoint.RemoteAddr of every endpoint of the Config
RemoteAddr == <<"10.0.1.1:80", "10.0.1.1:5432", "10.0.2.1:80">>

\* the two ends of a Relay, and the end each direction reads and writes
Sides == {"local", "remote"}
Src(d) == IF d = "l2r" THEN "local" ELSE "remote"
Dst(d) == IF d = "l2r" THEN "remote" ELSE "local"

\* the bytes of the streams, and the number of bytes a peer writes at most
Bytes == {"a", "b"}
MaxBytes == 2

\* the connection whose bytes are followed
RelayConn == 1

VARIABLES
    LocalAddr,  \* Endpoint.LocalAddr of every endpoint of the decoded Config
    mpc,        \* position of main
    fatal,      \* why the process ended ("none" while it runs)
    agentConn,  \* result of net.Dial("unix", socket)
    hostIdx,    \* index of the host the loop of main is at
    epIdx,      \* endpoint (global number) the inner loop of main is at
    client,     \* per host: the result of ssh.Dial
    dials,      \* per host: number of ssh.Dial calls made
    httpL,      \* the listener of http.ListenAndServe(":0", nil)
    tpc,        \* per endpoint: position of its forwardEndpoint goroutine
    terr,       \* per endpoint: the error that made forwardEndpoint return
    binds,      \* per endpoint: number of net.Listen calls made
    local,      \* per endpoint: its listener
    cur,        \* per endpoint: the connection its loop iteration holds
    arg,        \* per endpoint: the host whose client forwardEndpoint was given
    owner,      \* per connection: the endpoint whose listener accepted it
    forward,    \* per connection: the accepted local connection
    remote,     \* per connection: the channel of client.Dial
    cpc,        \* per connection and direction: position of the copy goroutine
    chans,      \* per connection: the client.Dial calls made for it
    relays,     \* per connection: number of `go handleClient` made with it
    echo,       \* the remote peer of RelayConn writes back what it receives
    peer,       \* per side of RelayConn: what the peer has done to its end
    sent,       \* per side of RelayConn: the bytes the peer has written
    rbuf,       \* per side of RelayConn: the bytes written and not read yet
    hold,       \* per direction: the bytes io.Copy has read and not written
    delivered   \* per side of RelayConn: the bytes io.Copy has written to it

vars == <<LocalAddr, mpc, fatal, agentConn, hostIdx, epIdx, client, dials, httpL,
          tpc, terr, binds, local, cur, arg, owner, forward, remote, cpc,
          chans, relays, echo, peer, sent, rbuf, hold, delivered>>

mainVars == <<mpc, fatal, agentConn, hostIdx, epIdx, client, dials, httpL>>
tunnelVars == <<tpc, terr, binds, local, cur, arg>>
relayVars == <<owner, forward, remote, cpc, chans, relays>>
streamVars == <<echo, peer, sent, rbuf, hold, delivered>>

\* the copies of Spec carry no bytes: the streams stay as they are here
NoStreams ==
    /\ echo = FALSE
    /\ peer = [s \in Sides |-> "open"]
    /\ sent = [s \in Sides |-> <<>>]
    /\ rbuf = [s \in Sides |-> <<>>]
    /\ hold = [d \in Dirs |-> <<>>]
    /\ delivered = [s \in Sides |-> <<>>]

Init ==
    /\ LocalAddr \in Configs
    /\ mpc = "flags"
    /\ fatal = "none"
    /\ agentConn = "none"
    /\ hostIdx = 0
    /\ epIdx = 0
    /\ client = [h \in Hosts |-> "none"]
    /\ dials = [h \in Hosts |-> 0]
    /\ httpL = "none"
    /\ tpc = [e \in Endpoints |-> "unspawned"]
    /\ terr = [e \in Endpoints |-> "none"]
    /\ binds = [e \in Endpoints |-> 0]
    /\ local = [e \in Endpoints |-> "none"]
    /\ cur = [e \in Endpoints |-> 0]
    /\ owner = [c \in Conns |-> 0]
    /\ forward = [c \in Conns |-> "none"]
    /\ remote = [c \in Conns |-> "none"]
    /\ cpc = [c \in Conns |-> [d \in Dirs |-> "none"]]
    /\ arg = [e \in Endpoints |-> 0]
    /\ chans = [c \in Conns |-> <<>>]
    /\ relays = [c \in Conns |-> 0]
    /\ NoStreams

\* the process has neither returned from main nor been ended by log.Fatal
Running == mpc \notin {"returned", "exited"}

\* log.Fatal / log.Fatalf: os.Exit(1) from wherever main is
Fatal(why) ==
    /\ mpc' = "exited"
    /\ fatal' = why

----------------------------------------------------------------------------
\* main

\* flag.Parse and the check of the two required flags
ParseFlags ==
    /\ mpc = "flags"
    /\ \E given \in BOOLEAN :
          IF given THEN mpc' = "open" ELSE mpc' = "returned"
    /\ UNCHANGED <<LocalAddr, streamVars, fatal, agentConn, hostIdx, epIdx, client, dials, httpL>>
    /\ UNCHANGED <<tunnelVars, relayVars>>

\* os.Open(filename)
OpenConfig ==
    /\ mpc = "open"
    /\ \E ok \in BOOLEAN :
          IF ok THEN mpc' = "decode" /\ fatal' = fatal ELSE Fatal("config")
    /\ UNCHANGED <<LocalAddr, streamVars, agentConn, hostIdx, epIdx, client, dials, httpL>>
    /\ UNCHANGED <<tunnelVars, relayVars>>

\* dec.Decode(&envConfig)
DecodeConfig ==
    /\ mpc = "decode"
    /\ \E ok \in BOOLEAN :
          IF ok THEN mpc' = "agent" /\ fatal' = fatal ELSE Fatal("config")
    /\ UNCHANGED <<LocalAddr, streamVars, agentConn, hostIdx, epIdx, client, dials, httpL>>
    /\ UNCHANGED <<tunnelVars, relayVars>>

\* DialAgent with the error of net.Dial ignored: main goes on to the hosts
DialAgent_noerr ==
    /\ mpc = "agent"
    /\ \E ok \in BOOLEAN :
          /\ agentConn' = IF ok THEN "open" ELSE "failed"
          /\ mpc' = "hosts"
          /\ hostIdx' = 1
          /\ fatal' = fatal
    /\ UNCHANGED <<LocalAddr, streamVars, epIdx, client, dials, httpL>>
    /\ UNCHANGED <<tunnelVars, relayVars>>

\* net.Dial("unix", socket) and the construction of the ssh.ClientConfig
DialAgent ==
    /\ mpc = "agent"
    /\ \E ok \in BOOLEAN :
          IF ok
          THEN /\ agentConn' = "open"
               /\ mpc' = "hosts"
               /\ hostIdx' = 1
               /\ fatal' = fatal
          ELSE /\ agentConn' = "failed"
               /\ hostIdx' = hostIdx
               /\ Fatal("agent")
    /\ UNCHANGED <<LocalAddr, streamVars, epIdx, client, dials, httpL>>
    /\ UNCHANGED <<tunnelVars, relayVars>>

\* the two loops of main: where main is after the `go` of endpoint e of host
\* h (after the dial of h when e is the last endpoint before h): at the next
\* endpoint of h, or, when h has no more endpoints, at the dial of the next
\* host
LoopAfter(h, e) ==
    IF e < EndpointsBefore(h + 1)
    THEN [pc |-> "spawn", host |-> h, ep |-> e + 1]
    ELSE [pc |-> "hosts", host |-> h + 1, ep |-> e + 1]

\* DialHost with `continue` in place of log.Fatal: a host whose dial failed
\* is skipped
DialHost_skip ==
    /\ mpc = "hosts"
    /\ hostIdx \in Hosts
    /\ dials' = [dials EXCEPT ![hostIdx] = @ + 1]
    /\ \E ok \in BOOLEAN :
          IF ok
          THEN /\ client' = [client EXCEPT ![hostIdx] = "open"]
               /\ mpc' = LoopAfter(hostIdx, EndpointsBefore(hostIdx)).pc
               /\ hostIdx' = LoopAfter(hostIdx, EndpointsBefore(hostIdx)).host
               /\ epIdx' = LoopAfter(hostIdx, EndpointsBefore(hostIdx)).ep
          ELSE /\ client' = [client EXCEPT ![hostIdx] = "failed"]
               /\ mpc' = mpc
               /\ hostIdx' = hostIdx + 1
               /\ epIdx' = epIdx
    /\ UNCHANGED <<LocalAddr, streamVars, fatal, agentConn, httpL>>
    /\ UNCHANGED <<tunnelVars, relayVars>>

\* DialHost with the error of ssh.Dial ignored: the Tunnels of the host are
\* spawned on the client it returned
DialHost_noerr ==
    /\ mpc = "hosts"
    /\ hostIdx \in Hosts
    /\ dials' = [dials EXCEPT ![hostIdx] = @ + 1]
    /\ \E ok \in BOOLEAN :
          client' = [client EXCEPT ![hostIdx] = IF ok THEN "open" ELSE "failed"]
    /\ mpc' = LoopAfter(hostIdx, EndpointsBefore(hostIdx)).pc
    /\ hostIdx' = LoopAfter(hostIdx, EndpointsBefore(hostIdx)).host
    /\ epIdx' = LoopAfter(hostIdx, EndpointsBefore(hostIdx)).ep
    /\ UNCHANGED <<LocalAddr, streamVars, fatal, agentConn, httpL>>
    /\ UNCHANGED <<tunnelVars, relayVars>>

\* for _, host := range envConfig.Hosts: ssh.Dial("tcp", host.Address, config);
\* log.Fatal on its error, else on to the endpoints of the host
DialHost ==
    /\ mpc = "hosts"
    /\ hostIdx \in Hosts
    /\ dials' = [dials EXCEPT ![hostIdx] = @ + 1]
    /\ \E ok \in BOOLEAN :
          IF ok
          THEN /\ client' = [client EXCEPT ![hostIdx] = "open"]
               /\ mpc' = LoopAfter(hostIdx, EndpointsBefore(hostIdx)).pc
               /\ hostIdx' = LoopAfter(hostIdx, EndpointsBefore(hostIdx)).host
               /\ epIdx' = LoopAfter(hostIdx, EndpointsBefore(hostIdx)).ep
               /\ fatal' = fatal
          ELSE /\ client' = [client EXCEPT ![hostIdx] = "failed"]
               /\ hostIdx' = hostIdx
               /\ epIdx' = epIdx
               /\ Fatal("session")
    /\ UNCHANGED <<LocalAddr, streamVars, agentConn, httpL>>
    /\ UNCHANGED <<tunnelVars, relayVars>>

\* SpawnTunnel with one client variable shared by the iterations and read when
\* the goroutine runs: every Tunnel is given the client of the first host
SpawnTunnel_sharedClient ==
    /\ mpc = "spawn"
    /\ epIdx \in EndpointsOf(hostIdx)
    /\ tpc' = [tpc EXCEPT ![epIdx] = "listen"]
    /\ mpc' = LoopAfter(hostIdx, epIdx).pc
    /\ hostIdx' = LoopAfter(hostIdx, epIdx).host
    /\ epIdx' = LoopAfter(hostIdx, epIdx).ep
    /\ UNCHANGED <<LocalAddr, streamVars, fatal, agentConn, client, dials, httpL>>
    /\ arg' = [arg EXCEPT ![epIdx] = 1]
    /\ UNCHANGED <<terr, binds, local, cur, relayVars>>

\* SpawnTunnel with a `break` after the first `go`: only the first endpoint
\* of a host gets a Tunnel
SpawnTunnel_break ==
    /\ mpc = "spawn"
    /\ epIdx \in EndpointsOf(hostIdx)
    /\ tpc' = [tpc EXCEPT ![epIdx] = "listen"]
    /\ mpc' = "hosts"
    /\ hostIdx' = hostIdx + 1
    /\ epIdx' = EndpointsBefore(hostIdx + 1) + 1
    /\ UNCHANGED <<LocalAddr, streamVars, fatal, agentConn, client, dials, httpL>>
    /\ arg' = [arg EXCEPT ![epIdx] = hostIdx]
    /\ UNCHANGED <<terr, binds, local, cur, relayVars>>

\* for _, endpoint := range host.Endpoints: go forwardEndpoint(client, endpoint),
\* and on to the next endpoint or, after the last one, to the next host
SpawnTunnel ==
    /\ mpc = "spawn"
    /\ epIdx \in EndpointsOf(hostIdx)
    /\ tpc' = [tpc EXCEPT ![epIdx] = "listen"]
    /\ mpc' = LoopAfter(hostIdx, epIdx).pc
    /\ hostIdx' = LoopAfter(hostIdx, epIdx).host
    /\ epIdx' = LoopAfter(hostIdx, epIdx).ep
    /\ UNCHANGED <<LocalAddr, streamVars, fatal, agentConn, client, dials, httpL>>
    /\ arg' = [arg EXCEPT ![epIdx] = hostIdx]
    /\ UNCHANGED <<terr, binds, local, cur, relayVars>>

\* the outer loop is over: log.Fatal(http.ListenAndServe(":0", nil)), the
\* bind of the http listener on a port the system chooses
ListenAndServe ==
    /\ mpc = "hosts"
    /\ hostIdx \notin Hosts
    /\ \E ok \in BOOLEAN :
          IF ok
          THEN /\ httpL' = "open"
               /\ mpc' = "serve"
               /\ fatal' = fatal
          ELSE /\ httpL' = httpL
               /\ Fatal("http")
    /\ UNCHANGED <<LocalAddr, streamVars, agentConn, hostIdx, epIdx, client, dials>>
    /\ UNCHANGED <<tunnelVars, relayVars>>

\* the accept loop of the http server returns an error: log.Fatal
ServeError ==
    /\ mpc = "serve"
    /\ Fatal("http")
    /\ UNCHANGED <<LocalAddr, streamVars, agentConn, hostIdx, epIdx, client, dials, httpL>>
    /\ UNCHANGED <<tunnelVars, relayVars>>

Main ==
    \/ ParseFlags
    \/ OpenConfig
    \/ DecodeConfig
    \/ DialAgent
    \/ DialHost
    \/ SpawnTunnel
    \/ ListenAndServe
    \/ ServeError

----------------------------------------------------------------------------
\* forwardEndpoint

\* AddrInUse for listeners that share their address (SO_REUSEPORT)
AddrInUse_never(e) == FALSE

\* some listener of this process is bound to the local address of endpoint e
AddrInUse(e) ==
    \E o \in Endpoints : o # e /\ local[o] = "open" /\ LocalAddr[o] = LocalAddr[e]

\* BindFailed without the `return`: the accept loop is entered
BindFailed_fallthrough == "accept"

\* the position of forwardEndpoint after net.Listen returned an error
BindFailed == "stopped"

\* net.Listen("tcp", endpoint.LocalAddr): fails when the address is in use,
\* and may fail for reasons outside the process
Listen(e) ==
    /\ Running
    /\ tpc[e] = "listen"
    /\ binds' = [binds EXCEPT ![e] = @ + 1]
    /\ \E ok \in BOOLEAN :
          IF ok /\ ~AddrInUse(e)
          THEN /\ local' = [local EXCEPT ![e] = "open"]
               /\ tpc' = [tpc EXCEPT ![e] = "accept"]
               /\ terr' = terr
          ELSE /\ local' = local
               /\ tpc' = [tpc EXCEPT ![e] = BindFailed]
               /\ terr' = [terr EXCEPT ![e] = "bind"]
    /\ UNCHANGED <<LocalAddr, streamVars, mainVars, cur, arg, relayVars>>

\* the connections no listener has accepted yet
FreeConns == {c \in Conns : owner[c] = 0}

\* AcceptOK of a loop that waits for the Relays it started: no connection is
\* accepted while a Relay of this endpoint has a copy running
AcceptOK_serial(e) ==
    /\ Running
    /\ tpc[e] = "accept"
    /\ FreeConns # {}
    /\ \A x \in Conns : owner[x] = e => \A d \in Dirs : cpc[x][d] \in {"none", "done"}
    /\ LET c == CHOOSE x \in FreeConns : \A y \in FreeConns : x <= y
       IN  /\ owner' = [owner EXCEPT ![c] = e]
           /\ forward' = [forward EXCEPT ![c] = "open"]
           /\ cur' = [cur EXCEPT ![e] = c]
    /\ tpc' = [tpc EXCEPT ![e] = "dial"]
    /\ UNCHANGED <<LocalAddr, streamVars, mainVars, terr, binds, local, arg, remote, cpc, chans, relays>>

\* AcceptOK of a loop that opens the channel in a goroutine of its own: the
\* next connection is accepted while the open is in progress
AcceptOK_async(e) ==
    /\ Running
    /\ tpc[e] \in {"accept", "dial"}
    /\ FreeConns # {}
    /\ LET c == CHOOSE x \in FreeConns : \A y \in FreeConns : x <= y
       IN  /\ owner' = [owner EXCEPT ![c] = e]
           /\ forward' = [forward EXCEPT ![c] = "open"]
           /\ cur' = [cur EXCEPT ![e] = c]
    /\ tpc' = [tpc EXCEPT ![e] = "dial"]
    /\ UNCHANGED <<LocalAddr, streamVars, mainVars, terr, binds, local, arg, remote, cpc, chans, relays>>

\* local.Accept() returns a connection
AcceptOK(e) ==
    /\ Running
    /\ tpc[e] = "accept"
    /\ FreeConns # {}
    /\ LET c == CHOOSE x \in FreeConns : \A y \in FreeConns : x <= y
       IN  /\ owner' = [owner EXCEPT ![c] = e]
           /\ forward' = [forward EXCEPT ![c] = "open"]
           /\ cur' = [cur EXCEPT ![e] = c]
    /\ tpc' = [tpc EXCEPT ![e] = "dial"]
    /\ UNCHANGED <<LocalAddr, streamVars, mainVars, terr, binds, local, arg, remote, cpc, chans, relays>>

\* AcceptError with a retry: the endpoint is bound again
AcceptError_rebind(e) ==
    /\ Running
    /\ tpc[e] = "accept"
    /\ tpc' = [tpc EXCEPT ![e] = "listen"]
    /\ terr' = [terr EXCEPT ![e] = "accept"]
    /\ UNCHANGED <<LocalAddr, streamVars, mainVars, binds, local, cur, arg, relayVars>>

\* local.Accept() returns an error: forwardEndpoint returns
AcceptError(e) ==
    /\ Running
    /\ tpc[e] = "accept"
    /\ tpc' = [tpc EXCEPT ![e] = "stopped"]
    /\ terr' = [terr EXCEPT ![e] = "accept"]
    /\ UNCHANGED <<LocalAddr, streamVars, mainVars, binds, local, cur, arg, relayVars>>

\* the call client.Dial("tcp", endpoint.RemoteAddr) of the Tunnel of endpoint
\* e: the client it is made on and the address it asks for
ChannelOpen(e) == [via |-> arg[e], addr |-> RemoteAddr[e]]

\* client.Dial("tcp", endpoint.RemoteAddr) returns a channel:
\* go handleClient(forward, remote), and the loop accepts again
DialOK(e) ==
    /\ Running
    /\ tpc[e] = "dial"
    /\ client[arg[e]] = "open"
    /\ remote' = [remote EXCEPT ![cur[e]] = "open"]
    /\ chans' = [chans EXCEPT ![cur[e]] = Append(@, ChannelOpen(e))]
    /\ relays' = [relays EXCEPT ![cur[e]] = @ + 1]
    /\ tpc' = [tpc EXCEPT ![e] = "accept"]
    /\ cur' = [cur EXCEPT ![e] = 0]
    /\ UNCHANGED <<LocalAddr, streamVars, mainVars, terr, binds, local, arg, owner, forward, cpc>>

\* DialError with `return` in place of `continue`
DialError_return(e) ==
    /\ Running
    /\ tpc[e] = "dial"
    /\ remote' = [remote EXCEPT ![cur[e]] = "failed"]
    /\ chans' = [chans EXCEPT ![cur[e]] = Append(@, ChannelOpen(e))]
    /\ relays' = relays
    /\ tpc' = [tpc EXCEPT ![e] = "stopped"]
    /\ cur' = [cur EXCEPT ![e] = 0]
    /\ UNCHANGED <<LocalAddr, streamVars, mainVars, terr, binds, local, arg, owner, forward, cpc>>

\* client.Dial returns an error: log and continue; forward is not closed
DialError(e) ==
    /\ Running
    /\ tpc[e] = "dial"
    /\ remote' = [remote EXCEPT ![cur[e]] = "failed"]
    /\ chans' = [chans EXCEPT ![cur[e]] = Append(@, ChannelOpen(e))]
    /\ relays' = relays
    /\ tpc' = [tpc EXCEPT ![e] = "accept"]
    /\ cur' = [cur EXCEPT ![e] = 0]
    /\ UNCHANGED <<LocalAddr, streamVars, mainVars, terr, binds, local, arg, owner, forward, cpc>>

Tunnel(e) ==
    \/ Listen(e)
    \/ AcceptOK(e)
    \/ AcceptError(e)
    \/ DialOK(e)
    \/ DialError(e)

----------------------------------------------------------------------------
\* handleClient

\* handleClient(forward, remote) has been started with `go` and has not run
Handed(c) == remote[c] = "open" /\ \A d \in Dirs : cpc[c][d] = "none"

\* handleClient: starts the goroutine of io.Copy(f, r) (remote -> local) and
\* the goroutine of io.Copy(r, f) (local -> remote), each with a deferred
\* close(), and returns
HandleClient(c) ==
    /\ Running
    /\ Handed(c)
    /\ cpc' = [cpc EXCEPT ![c] = [d \in Dirs |-> "copy"]]
    /\ UNCHANGED <<LocalAddr, streamVars, mainVars, tunnelVars, owner, forward, remote, chans, relays>>

\* CopyReturn of a Relay that passes a half-close on: the connection the copy
\* read from is left open for the opposite direction
CopyReturn_halfClose(c, d) ==
    /\ Running
    /\ cpc[c][d] = "copy"
    /\ forward' = forward
    /\ cpc' = [cpc EXCEPT ![c][d] = "closeRemote"]
    /\ UNCHANGED <<LocalAddr, streamVars, mainVars, tunnelVars, owner, remote, chans, relays>>

\* io.Copy returns (its source reached end-of-stream, or a read or a write
\* returned an error: when that happens is decided by the two peers, the
\* network and the other goroutine's close) and the deferred close() starts:
\* forward.Close()
CopyReturn(c, d) ==
    /\ Running
    /\ cpc[c][d] = "copy"
    /\ forward' = [forward EXCEPT ![c] = "closed"]
    /\ cpc' = [cpc EXCEPT ![c][d] = "closeRemote"]
    /\ UNCHANGED <<LocalAddr, streamVars, mainVars, tunnelVars, owner, remote, chans, relays>>

\* CloseRemote of a close() that panics on a channel closed before
CloseRemote_panics(c, d) ==
    /\ Running
    /\ cpc[c][d] = "closeRemote"
    /\ remote' = [remote EXCEPT ![c] = "closed"]
    /\ cpc' = [cpc EXCEPT ![c][d] = "done"]
    /\ IF remote[c] = "closed"
       THEN /\ Fatal("panic")
            /\ UNCHANGED <<agentConn, hostIdx, epIdx, client, dials, httpL>>
       ELSE UNCHANGED mainVars
    /\ UNCHANGED <<LocalAddr, streamVars, tunnelVars, owner, forward, chans, relays>>

\* CloseRemote of a close() that closes forward only
CloseRemote_forwardOnly(c, d) ==
    /\ Running
    /\ cpc[c][d] = "closeRemote"
    /\ forward' = [forward EXCEPT ![c] = "closed"]
    /\ cpc' = [cpc EXCEPT ![c][d] = "done"]
    /\ UNCHANGED <<LocalAddr, streamVars, mainVars, tunnelVars, owner, remote, chans, relays>>

\* close(): remote.Close(), and the goroutine ends
CloseRemote(c, d) ==
    /\ Running
    /\ cpc[c][d] = "closeRemote"
    /\ remote' = [remote EXCEPT ![c] = "closed"]
    /\ cpc' = [cpc EXCEPT ![c][d] = "done"]
    /\ UNCHANGED <<LocalAddr, streamVars, mainVars, tunnelVars, owner, forward, chans, relays>>

Relay(c) ==
    \/ HandleClient(c)
    \/ \E d \in Dirs : CopyReturn(c, d)
    \/ \E d \in Dirs : CloseRemote(c, d)

----------------------------------------------------------------------------
Next ==
    \/ Main
    \/ \E e \in Endpoints : Tunnel(e)
    \/ \E c \in Conns : Relay(c)

Spec == Init /\ [][Next]_vars

TypeOK ==
    /\ LocalAddr \in [Endpoints -> Addrs]
    /\ mpc \in {"flags", "open", "decode", "agent", "hosts", "spawn", "serve",
                "returned", "exited"}
    /\ fatal \in {"none", "config", "agent", "session", "http"}
    /\ agentConn \in {"none", "open", "failed"}
    /\ hostIdx \in 0..(NumHosts + 1)
    /\ epIdx \in 0..(NumEndpoints + 1)
    /\ client \in [Hosts -> {"none", "open", "failed"}]
    /\ dials \in [Hosts -> 0..1]
    /\ httpL \in {"none", "open"}
    /\ tpc \in [Endpoints -> {"unspawned", "listen", "accept", "dial", "stopped"}]
    /\ terr \in [Endpoints -> {"none", "bind", "accept"}]
    /\ binds \in [Endpoints -> 0..1]
    /\ local \in [Endpoints -> {"none", "open"}]
    /\ cur \in [Endpoints -> Conns \cup {0}]
    /\ owner \in [Conns -> Endpoints \cup {0}]
    /\ forward \in [Conns -> {"none", "open", "closed"}]
    /\ remote \in [Conns -> {"none", "failed", "open", "closed"}]
    /\ cpc \in [Conns -> [Dirs -> {"none", "copy", "closeRemote", "done"}]]
    /\ arg \in [Endpoints -> Hosts \cup {0}]
    /\ \A c \in Conns : Len(chans[c]) <= 1 /\ relays[c] \in 0..1
    /\ echo \in BOOLEAN
    /\ peer \in [Sides -> {"open", "eof", "gone"}]
    /\ \A s \in Sides :
          /\ sent[s] \in Seq(Bytes) /\ Len(sent[s]) <= MaxBytes
          /\ rbuf[s] \in Seq(Bytes)
          /\ delivered[s] \in Seq(Bytes)
    /\ \A d \in Dirs : hold[d] \in Seq(Bytes)

----------------------------------------------------------------------------
\* The bytes of one Relay: the two io.Copy loops of the Relay of RelayConn,
\* with the peers of its two connections. Here a copy returns when its Read
\* or its Write does, where Spec lets it return at any time.

\* the connection of pair c on side s
ConnOf(c, s) == IF s = "local" THEN forward[c] ELSE remote[c]

\* the state in which the first connection has been accepted on the first
\* endpoint and `go handleClient(forward, remote)` has been executed for it,
\* with main in http.ListenAndServe and every Tunnel at Accept
RelayStart ==
    /\ LocalAddr = <<"127.0.0.1:9001", "127.0.0.1:9002", "127.0.0.1:9003">>
    /\ mpc = "serve"
    /\ fatal = "none"
    /\ agentConn = "open"
    /\ hostIdx = NumHosts + 1
    /\ epIdx = NumEndpoints + 1
    /\ client = [h \in Hosts |-> "open"]
    /\ dials = [h \in Hosts |-> 1]
    /\ httpL = "open"
    /\ tpc = [e \in Endpoints |-> "accept"]
    /\ terr = [e \in Endpoints |-> "none"]
    /\ binds = [e \in Endpoints |-> 1]
    /\ local = [e \in Endpoints |-> "open"]
    /\ cur = [e \in Endpoints |-> 0]
    /\ arg = [e \in Endpoints |-> HostOf(e)]
    /\ owner = [c \in Conns |-> IF c = RelayConn THEN 1 ELSE 0]
    /\ forward = [c \in Conns |-> IF c = RelayConn THEN "open" ELSE "none"]
    /\ remote = [c \in Conns |-> IF c = RelayConn THEN "open" ELSE "none"]
    /\ cpc = [c \in Conns |-> [d \in Dirs |-> "none"]]
    /\ chans = [c \in Conns |->
                  IF c = RelayConn
                  THEN <<[via |-> 1, addr |-> RemoteAddr[1]]>> ELSE <<>>]
    /\ relays = [c \in Conns |-> IF c = RelayConn THEN 1 ELSE 0]

InitRelay ==
    /\ RelayStart
    /\ echo \in BOOLEAN
    /\ peer = [s \in Sides |-> "open"]
    /\ sent = [s \in Sides |-> <<>>]
    /\ rbuf = [s \in Sides |-> <<>>]
    /\ hold = [d \in Dirs |-> <<>>]
    /\ delivered = [s \in Sides |-> <<>>]

\* the peer of side s writes byte b to its connection; an echoing remote
\* peer writes the next byte it has received and nothing else
PeerSend(s, b) ==
    /\ peer[s] = "open"
    /\ ConnOf(RelayConn, s) = "open"
    /\ Len(sent[s]) < MaxBytes
    /\ (echo /\ s = "remote") =>
          /\ Len(sent[s]) < Len(delivered[s])
          /\ b = delivered[s][Len(sent[s]) + 1]
    /\ sent' = [sent EXCEPT ![s] = Append(@, b)]
    /\ rbuf' = [rbuf EXCEPT ![s] = Append(@, b)]
    /\ UNCHANGED <<LocalAddr, mainVars, tunnelVars, relayVars, echo, peer, hold, delivered>>

\* the peer of side s closes its write direction and goes on reading
PeerShutdown(s) ==
    /\ peer[s] = "open"
    /\ peer' = [peer EXCEPT ![s] = "eof"]
    /\ UNCHANGED <<LocalAddr, mainVars, tunnelVars, relayVars, echo, sent, rbuf, hold, delivered>>

\* the peer of side s closes its connection
PeerGone(s) ==
    /\ peer[s] \in {"open", "eof"}
    /\ peer' = [peer EXCEPT ![s] = "gone"]
    /\ UNCHANGED <<LocalAddr, mainVars, tunnelVars, relayVars, echo, sent, rbuf, hold, delivered>>

\* io.Copy of direction d: Read returns some of the bytes that have arrived
CopyRead(d) ==
    /\ Running
    /\ cpc[RelayConn][d] = "copy"
    /\ hold[d] = <<>>
    /\ ConnOf(RelayConn, Src(d)) = "open"
    /\ rbuf[Src(d)] # <<>>
    /\ \E k \in 1..Len(rbuf[Src(d)]) :
          /\ hold' = [hold EXCEPT ![d] = SubSeq(rbuf[Src(d)], 1, k)]
          /\ rbuf' = [rbuf EXCEPT ![Src(d)] = SubSeq(@, k + 1, Len(@))]
    /\ UNCHANGED <<LocalAddr, mainVars, tunnelVars, relayVars, echo, peer, sent, delivered>>

\* CopyWrite that puts the bytes in front of the ones written before
CopyWrite_prepend(d) ==
    /\ Running
    /\ cpc[RelayConn][d] = "copy"
    /\ hold[d] # <<>>
    /\ ConnOf(RelayConn, Dst(d)) = "open"
    /\ peer[Dst(d)] # "gone"
    /\ delivered' = [delivered EXCEPT ![Dst(d)] = hold[d] \o @]
    /\ hold' = [hold EXCEPT ![d] = <<>>]
    /\ UNCHANGED <<LocalAddr, mainVars, tunnelVars, relayVars, echo, peer, sent, rbuf>>

\* io.Copy of direction d: Write writes the bytes Read returned
CopyWrite(d) ==
    /\ Running
    /\ cpc[RelayConn][d] = "copy"
    /\ hold[d] # <<>>
    /\ ConnOf(RelayConn, Dst(d)) = "open"
    /\ peer[Dst(d)] # "gone"
    /\ delivered' = [delivered EXCEPT ![Dst(d)] = @ \o hold[d]]
    /\ hold' = [hold EXCEPT ![d] = <<>>]
    /\ UNCHANGED <<LocalAddr, mainVars, tunnelVars, relayVars, echo, peer, sent, rbuf>>

\* io.Copy of direction d: Read returns io.EOF, the peer has closed its write
\* direction or its connection and every byte it wrote has been read
CopyEOF(d) ==
    /\ hold[d] = <<>>
    /\ ConnOf(RelayConn, Src(d)) = "open"
    /\ rbuf[Src(d)] = <<>>
    /\ peer[Src(d)] \in {"eof", "gone"}
    /\ CopyReturn(RelayConn, d)

\* io.Copy of direction d: Read returns an error, close() of the other
\* direction has closed the connection it reads
CopyReadErr(d) ==
    /\ hold[d] = <<>>
    /\ ConnOf(RelayConn, Src(d)) = "closed"
    /\ CopyReturn(RelayConn, d)

\* io.Copy of direction d: Write returns an error, the connection it writes
\* has been closed by close() of the other direction or by its peer
CopyWriteErr(d) ==
    /\ hold[d] # <<>>
    /\ ConnOf(RelayConn, Dst(d)) = "closed" \/ peer[Dst(d)] = "gone"
    /\ CopyReturn(RelayConn, d)

NextRelay ==
    \/ HandleClient(RelayConn)
    \/ \E s \in Sides : \E b \in Bytes : PeerSend(s, b)
    \/ \E s \in Sides : PeerShutdown(s)
    \/ \E s \in Sides : PeerGone(s)
    \/ \E d \in Dirs : CopyRead(d)
    \/ \E d \in Dirs : CopyWrite(d)
    \/ \E d \in Dirs : CopyEOF(d)
    \/ \E d \in Dirs : CopyReadErr(d)
    \/ \E d \in Dirs : CopyWriteErr(d)
    \/ \E d \in Dirs : CloseRemote(RelayConn, d)

SpecRelay == InitRelay /\ [][NextRelay]_vars

\* the goroutines of the Relay are scheduled, and a Read or a Write that can
\* return does; the peers are under no obligation
FairRelay ==
    /\ WF_vars(HandleClient(RelayConn))
    /\ \A d \in Dirs :
          /\ WF_vars(CopyRead(d))
          /\ WF_vars(CopyWrite(d))
          /\ WF_vars(CopyEOF(d))
          /\ WF_vars(CopyReadErr(d))
          /\ WF_vars(CopyWriteErr(d))
          /\ WF_vars(CloseRemote(RelayConn, d))

\* a remote peer that writes what it likes can do all an echoing one does
InitLive == InitRelay /\ echo = FALSE

LiveRelay == InitLive /\ [][NextRelay]_vars /\ FairRelay

----------------------------------------------------------------------------
\* Helpers of the properties

\* the connections the listener of endpoint e has accepted
Accepted(e) == {c \in Conns : owner[c] = e}

\* endpoint a comes before endpoint b in the configuration and both are
\* configured with the same local address
SameAddrInOrder(a, b) == a < b /\ LocalAddr[a] = LocalAddr[b]

\* the state of the Tunnel of endpoint e in the words of the specification
TunnelState(e) ==
    IF tpc[e] = "stopped" THEN "Stopped"
    ELSE IF tpc[e] = "accept" \/ tpc[e] = "dial" THEN "Accepting"
    ELSE "Unbound"

----------------------------------------------------------------------------
\* C1: a copy goroutine of handleClient that has finished (io.Copy returned,
\* by end-of-stream or by an error, and the deferred close() ran) leaves both
\* the local connection and the channel closed; never exactly one of them.
Thm_C1 ==
    \A c \in Conns : \A d \in Dirs :
        cpc[c][d] = "done" => forward[c] = "closed" /\ remote[c] = "closed"

\* one direction has finished while the other is still copying
Wit_C1 ==
    \E c \in Conns :
        /\ cpc[c]["l2r"] = "done"
        /\ cpc[c]["r2l"] = "copy"
        /\ forward[c] = "closed"
        /\ remote[c] = "closed"

\* C2: a step in which client.Dial fails for the accepted connection leaves
\* the Tunnel in its accept loop with its listener open and the process
\* running, whatever the number of failures before it.
Thm_C2 ==
    [][\A e \in Endpoints :
          (tpc[e] = "dial" /\ remote'[cur[e]] = "failed")
             => /\ tpc'[e] = "accept"
                /\ local'[e] = "open"
                /\ terr'[e] = "none"
                /\ Running']_vars

\* after a failed channel open the same Tunnel accepted a later connection,
\* opened a channel for it and its Relay is copying
Wit_C2 ==
    \E c1, c2 \in Conns :
        /\ c1 < c2
        /\ owner[c1] = owner[c2]
        /\ remote[c1] = "failed"
        /\ remote[c2] = "open"
        /\ \A d \in Dirs : cpc[c2][d] = "copy"

\* C3: once the channel open for an accepted connection has failed, that
\* accepted connection is not left open.
Cex_C3 ==
    \A c \in Conns : remote[c] = "failed" => forward[c] # "open"

\* C4: the hosts are dialed in configuration order, each after the Sessions of
\* all hosts before it were established; a Session that fails to establish
\* ends the process: no later host is dialed and no Tunnel of the failing host
\* or of a later host is started.
Thm_C4 ==
    \A h \in Hosts :
        /\ dials[h] > 0 => \A g \in Hosts : g < h => client[g] = "open"
        /\ client[h] = "failed" =>
              /\ mpc = "exited"
              /\ fatal = "session"
              /\ \A g \in Hosts : g > h => dials[g] = 0 /\ client[g] = "none"
              /\ \A g \in Hosts : g >= h =>
                    \A e \in EndpointsOf(g) : tpc[e] = "unspawned" /\ binds[e] = 0

\* the Session of the first host failed
Wit_C4 == client[1] = "failed" /\ mpc = "exited"

\* C5: every host is dialed at most once, and a Tunnel that has been started
\* (and so any Tunnel that has bound or accepted) belongs to a host whose one
\* Session was established.
Thm_C5 ==
    /\ \A h \in Hosts : dials[h] <= 1 /\ (client[h] # "none" <=> dials[h] = 1)
    /\ \A e \in Endpoints :
          (tpc[e] # "unspawned" \/ binds[e] > 0 \/ local[e] # "none" \/ Accepted(e) # {})
             => client[HostOf(e)] = "open" /\ dials[HostOf(e)] = 1

\* a Tunnel holds an accepted connection and is opening a channel on its Session
Wit_C5 == \E e \in Endpoints : tpc[e] = "dial" /\ client[HostOf(e)] = "open"

\* C6: no Tunnel is spawned while the Session of some configured host has not
\* been built.
Cex_C6 ==
    \A e \in Endpoints :
        tpc[e] # "unspawned" => \A h \in Hosts : client[h] = "open"

\* C6 as amended: main handles the hosts in order and, for each host, builds
\* its Session and then spawns its Tunnels before it dials the next host; a
\* spawned Tunnel has the Sessions of its own host and of all earlier hosts
\* built, a dialed host has all Tunnels of the earlier hosts spawned, and
\* main reaches http.ListenAndServe only with every Session built and every
\* Tunnel spawned.
Thm_C6 ==
    /\ \A e \in Endpoints :
          tpc[e] # "unspawned" =>
              /\ \A h \in Hosts : h <= HostOf(e) => client[h] = "open"
              /\ \A o \in Endpoints : o < e => tpc[o] # "unspawned"
    /\ \A h \in Hosts :
          dials[h] > 0 =>
              \A g \in Hosts : g < h => \A e \in EndpointsOf(g) : tpc[e] # "unspawned"
    /\ (mpc = "serve" \/ httpL = "open" \/ fatal = "http") =>
          /\ \A h \in Hosts : client[h] = "open"
          /\ \A e \in Endpoints : tpc[e] # "unspawned"

\* a Tunnel of the first host has bound its listener and the second host has
\* not been dialed
Wit_C6 ==
    \E e \in EndpointsOf(1) : local[e] = "open" /\ client[2] = "none" /\ dials[2] = 0

\* C7: every endpoint has one Tunnel which calls net.Listen at most once, and
\* exactly once by the time it has left the Unbound state; it holds a
\* listener only from that call, and after the call it has no listener only
\* when the call failed; when main is past its loops every endpoint has been
\* given its Tunnel.
Thm_C7 ==
    /\ \A e \in Endpoints :
          /\ binds[e] <= 1
          /\ binds[e] = 1 <=> tpc[e] \in {"accept", "dial", "stopped"}
          /\ local[e] = "open" => binds[e] = 1
          /\ (binds[e] = 1 /\ local[e] = "none") => (tpc[e] = "stopped" /\ terr[e] = "bind")
          /\ terr[e] = "bind" => local[e] = "none"
    /\ mpc = "serve" => \A e \in Endpoints : tpc[e] # "unspawned"

\* every Tunnel has made its bind attempt: one failed, another holds a listener
Wit_C7 ==
    /\ mpc = "serve"
    /\ \A e \in Endpoints : binds[e] = 1
    /\ \E e \in Endpoints : local[e] = "none" /\ terr[e] = "bind"
    /\ \E e \in Endpoints : local[e] = "open"

\* C8: of two endpoints configured with the same local address, the one that
\* is first in the configuration is the one that binds: the second never
\* holds the listener while the first has none.
Cex_C8 ==
    \A a, b \in Endpoints :
        SameAddrInOrder(a, b) => ~(local[b] = "open" /\ local[a] = "none")

\* C8 as amended: of two endpoints configured with the same local address at
\* most one holds a listener, whichever called net.Listen while no listener
\* of the process held the address; the other one's net.Listen then fails,
\* its Tunnel stops and never accepts a connection; and the step in which a
\* bind fails changes nothing of any other Tunnel or of any Relay.
Thm_C8 ==
    /\ [](\A a, b \in Endpoints :
            (a # b /\ LocalAddr[a] = LocalAddr[b]) =>
                /\ ~(local[a] = "open" /\ local[b] = "open")
                /\ (local[a] = "open" /\ binds[b] = 1) =>
                      /\ tpc[b] = "stopped"
                      /\ terr[b] = "bind"
                      /\ Accepted(b) = {})
    /\ [][\A b \in Endpoints :
            (tpc[b] = "listen" /\ tpc'[b] = "stopped") =>
                /\ \A a \in Endpoints \ {b} :
                      tpc'[a] = tpc[a] /\ local'[a] = local[a] /\ cur'[a] = cur[a]
                /\ relayVars' = relayVars
                /\ Running']_vars

\* the endpoint that is second in the configuration holds the address and
\* relays a connection; the first one got the bind failure
Wit_C8 ==
    \E a, b \in Endpoints :
        /\ SameAddrInOrder(a, b)
        /\ local[b] = "open"
        /\ tpc[a] = "stopped" /\ terr[a] = "bind"
        /\ \E c \in Accepted(b) : \A d \in Dirs : cpc[c][d] = "copy"

\* C9: every Tunnel moves Unbound -> Accepting -> Stopped only: the bind
\* decides between Accepting (listener bound) and Stopped (bind error, no
\* listener, nothing accepted); Accepting is left only by an accept error of
\* the accept call; a stopped Tunnel stays stopped, binds no more and accepts
\* no more.
Thm_C9 ==
    [][\A e \in Endpoints :
          IF tpc'[e] = tpc[e]
          THEN tpc[e] = "stopped" =>
                  /\ binds'[e] = binds[e]
                  /\ local'[e] = local[e]
                  /\ terr'[e] = terr[e]
                  /\ cur'[e] = cur[e]
                  /\ \A c \in Conns : owner'[c] = e => owner[c] = e
          ELSE \/ TunnelState(e)' = TunnelState(e) /\ TunnelState(e) # "Stopped"
               \/ /\ TunnelState(e) = "Unbound" /\ TunnelState(e)' = "Accepting"
                  /\ tpc[e] = "listen" /\ tpc'[e] = "accept"
                  /\ local'[e] = "open" /\ terr'[e] = "none"
               \/ /\ TunnelState(e) = "Unbound" /\ TunnelState(e)' = "Stopped"
                  /\ tpc[e] = "listen"
                  /\ terr'[e] = "bind" /\ local'[e] = "none"
                  /\ \A c \in Conns : owner'[c] # e
               \/ /\ TunnelState(e) = "Accepting" /\ TunnelState(e)' = "Stopped"
                  /\ tpc[e] = "accept"
                  /\ terr'[e] = "accept"]_vars

\* one Tunnel stopped at its bind, another by an accept error after it had
\* accepted a connection
Wit_C9 ==
    \E a, b \in Endpoints :
        /\ tpc[a] = "stopped" /\ terr[a] = "bind"
        /\ tpc[b] = "stopped" /\ terr[b] = "accept" /\ Accepted(b) # {}

\* C10: when the dial of the agent socket has failed the process has exited,
\* no host was dialed and no listener is bound; a host is dialed only with the
\* agent connection open.
Thm_C10 ==
    /\ agentConn = "failed" =>
          /\ mpc = "exited"
          /\ fatal = "agent"
    /\ agentConn # "open" =>
          /\ \A h \in Hosts : dials[h] = 0 /\ client[h] = "none"
          /\ \A e \in Endpoints : tpc[e] = "unspawned" /\ binds[e] = 0 /\ local[e] = "none"
          /\ httpL = "none"

\* the dial of the agent socket failed
Wit_C10 == agentConn = "failed" /\ mpc = "exited"

----------------------------------------------------------------------------
\* the listening sockets the process holds: the listeners of the endpoints,
\* each bound to the local address of its endpoint, and the listener of
\* http.ListenAndServe(":0", nil)
ListeningSockets ==
    {[of |-> "endpoint", addr |-> LocalAddr[e]] : e \in {x \in Endpoints : local[x] = "open"}}
       \cup (IF httpL = "open" THEN {[of |-> "http", addr |-> ":0"]} ELSE {})

\* main is past its two loops: every `go forwardEndpoint` has been executed
AllLaunched ==
    /\ mpc \in {"hosts", "serve"}
    /\ hostIdx \notin Hosts
    /\ \A e \in Endpoints : tpc[e] # "unspawned"

\* C11: once all Tunnels have been launched the process is not ended by its
\* own code: a step taken with all Tunnels launched and the process running
\* leaves the process running.
Cex_C11 ==
    [][(AllLaunched /\ Running) => Running']_vars

\* C12: every listening socket of the process is the listener of a
\* configured endpoint, bound to the local address of that endpoint; there is
\* no other listening socket.
Cex_C12 ==
    \A s \in ListeningSockets :
        /\ s.of = "endpoint"
        /\ \E e \in Endpoints : local[e] = "open" /\ LocalAddr[e] = s.addr

----------------------------------------------------------------------------
\* the other direction of a Relay
Other(d) == IF d = "l2r" THEN "r2l" ELSE "l2r"

\* C14: the shared close() can be run by both copy tasks in any order: a task
\* at close() is never blocked, each of its two Close calls leaves a
\* connection that is closed already closed, and the call does not end the
\* process nor move the other task; a task that completes close() ends and
\* leaves both connections closed.
Thm_C14 ==
    /\ [](\A c \in Conns : \A d \in Dirs :
             (Running /\ cpc[c][d] = "closeRemote") => ENABLED CloseRemote(c, d))
    /\ [][cpc' # cpc =>
            \A c \in Conns : \A d \in Dirs :
               /\ (cpc[c][d] = "copy" /\ cpc'[c][d] # "copy") =>
                     /\ cpc'[c][d] = "closeRemote"
                     /\ forward'[c] = "closed"
                     /\ remote'[c] = remote[c]
                     /\ cpc'[c][Other(d)] = cpc[c][Other(d)]
                     /\ Running'
               /\ (cpc[c][d] = "closeRemote" /\ cpc'[c][d] # "closeRemote") =>
                     /\ cpc'[c][d] = "done"
                     /\ forward'[c] = "closed"
                     /\ remote'[c] = "closed"
                     /\ cpc'[c][Other(d)] = cpc[c][Other(d)]
                     /\ Running']_vars

\* both tasks of a Relay have run close() to its end while the process runs
Wit_C14 ==
    \E c \in Conns :
        /\ Running
        /\ \A d \in Dirs : cpc[c][d] = "done"
        /\ forward[c] = "closed"
        /\ remote[c] = "closed"

\* C15: a bind failure, an accept failure, a channel-open failure or the
\* return of a copy leaves the process running, every Session as it was,
\* every other Tunnel where it was and the connections of every other Relay
\* as they were; and a process that was ended by an error was ended by the
\* config, the agent or a Session.
Cex_C15 ==
    /\ [](mpc = "exited" => fatal \in {"config", "agent", "session"})
    /\ [][/\ \A e \in Endpoints :
                (terr'[e] # terr[e] \/ (tpc[e] = "dial" /\ remote'[cur[e]] = "failed")) =>
                    /\ Running'
                    /\ client' = client
                    /\ \A o \in Endpoints \ {e} : tpc'[o] = tpc[o] /\ local'[o] = local[o]
                    /\ forward' = forward
          /\ \A c \in Conns : \A d \in Dirs :
                (cpc[c][d] = "copy" /\ cpc'[c][d] # "copy") =>
                    /\ Running'
                    /\ client' = client
                    /\ tpc' = tpc /\ local' = local
                    /\ \A x \in Conns \ {c} :
                          forward'[x] = forward[x] /\ remote'[x] = remote[x]]_vars

\* C16: the step in which the channel open succeeds puts the Tunnel back at
\* Accept with the Relay of the pair not yet run, and a Tunnel at Accept can
\* accept the next connection whatever its Relays and the Relays of the
\* other Tunnels are doing; a copy task can take its next step whatever the
\* other Relays are doing.
Thm_C16 ==
    /\ [](\A e \in Endpoints :
             (Running /\ tpc[e] = "accept" /\ FreeConns # {}) => ENABLED AcceptOK(e))
    /\ [](\A c \in Conns : \A d \in Dirs :
             (Running /\ cpc[c][d] = "copy") => ENABLED CopyReturn(c, d))
    /\ [][\A e \in Endpoints :
            (tpc[e] = "dial" /\ remote'[cur[e]] = "open") =>
                /\ tpc'[e] = "accept"
                /\ relays'[cur[e]] = 1
                /\ \A d \in Dirs : cpc'[cur[e]][d] = "none"]_vars

\* a Tunnel holds a later connection while both copy tasks of the Relay of an
\* earlier connection of the same Tunnel are still copying
Wit_C16 ==
    \E c1, c2 \in Conns :
        /\ c1 < c2
        /\ owner[c1] # 0
        /\ owner[c1] = owner[c2]
        /\ \A d \in Dirs : cpc[c1][d] = "copy"
        /\ forward[c2] = "open"

\* C17: for every accepted connection, once the loop iteration that accepted
\* it is over, client.Dial has been called exactly once, on the client of the
\* host of the endpoint and for the remote address of the endpoint;
\* handleClient has been started exactly once for it if the call returned a
\* channel and not at all otherwise; and handleClient is started only in the
\* step in which the channel open of that connection returns a channel.
Thm_C17 ==
    /\ [](\A c \in Conns :
             IF owner[c] = 0
             THEN chans[c] = <<>> /\ relays[c] = 0
             ELSE /\ Len(chans[c]) = (IF cur[owner[c]] = c THEN 0 ELSE 1)
                  /\ \A i \in 1..Len(chans[c]) :
                        /\ chans[c][i].via = HostOf(owner[c])
                        /\ chans[c][i].addr = RemoteAddr[owner[c]]
                  /\ relays[c] = (IF remote[c] \in {"open", "closed"} THEN 1 ELSE 0))
    /\ [][relays' # relays =>
            \A c \in Conns :
               relays'[c] # relays[c] =>
                  /\ relays[c] = 0 /\ relays'[c] = 1
                  /\ remote[c] = "none" /\ remote'[c] = "open"
                  /\ cur[owner[c]] = c
                  /\ \A x \in Conns \ {c} : relays'[x] = relays[x]]_vars

\* two connections of the endpoint of the second host, each with a channel
\* opened on the client of that host and a Relay of its own
Wit_C17 ==
    \E c1, c2 \in Conns :
        /\ c1 # c2
        /\ owner[c1] = NumEndpoints /\ owner[c2] = NumEndpoints
        /\ relays[c1] = 1 /\ relays[c2] = 1
        /\ chans[c1] = <<[via |-> NumHosts, addr |-> RemoteAddr[NumEndpoints]]>>
        /\ chans[c2] = chans[c1]

\* C19: a Tunnel has at most one accepted connection whose channel open has
\* not returned, it is the connection its loop iteration holds, and while
\* the open has not returned the Tunnel cannot accept: a step in which a
\* Tunnel accepts starts with no channel open of that Tunnel in progress.
Thm_C19 ==
    /\ [](\A e \in Endpoints :
             LET pending == {c \in Conns : owner[c] = e /\ remote[c] = "none"}
             IN  /\ Cardinality(pending) <= 1
                 /\ pending = (IF tpc[e] = "dial" THEN {cur[e]} ELSE {})
                 /\ tpc[e] = "dial" => ~ ENABLED AcceptOK(e))
    /\ [][owner' # owner =>
            \A c \in Conns :
               owner'[c] # owner[c] =>
                  /\ tpc[owner'[c]] = "accept"
                  /\ \A x \in Conns : owner[x] = owner'[c] => remote[x] # "none"]_vars

\* the channel open of one Tunnel has not returned and another Tunnel has
\* accepted a later connection and handed it to a Relay
Wit_C19 ==
    \E c1, c2 \in Conns :
        /\ c1 < c2
        /\ owner[c1] # 0 /\ owner[c2] # 0 /\ owner[c1] # owner[c2]
        /\ tpc[owner[c1]] = "dial" /\ cur[owner[c1]] = c1
        /\ relays[c2] = 1

----------------------------------------------------------------------------
\* sequence p is the beginning of sequence q
IsPrefix(p, q) == Len(p) <= Len(q) /\ p = SubSeq(q, 1, Len(p))

Thm_C18 ==
    (forward[RelayConn] = "open" /\ remote[RelayConn] = "open") =>
        /\ IsPrefix(delivered["remote"], sent["local"])
        /\ IsPrefix(delivered["local"], sent["remote"])
        /\ echo => IsPrefix(delivered["local"], sent["local"])

\* the local peer has written two different bytes, the remote peer has echoed
\* them and the local side has been given exactly them, both connections open
Wit_C18 ==
    /\ echo
    /\ forward[RelayConn] = "open" /\ remote[RelayConn] = "open"
    /\ Len(sent["local"]) = MaxBytes
    /\ sent["local"][1] # sent["local"][2]
    /\ delivered["local"] = sent["local"]

\* C20: from the moment a copy task has returned, at the end of the stream it
\* reads or otherwise, the local connection is closed and nothing more is
\* written to the local side; once the task has finished close() both
\* connections are closed and nothing more is written to either side.
Thm_C20 ==
    [][\A d \in Dirs :
          /\ cpc[RelayConn][d] \in {"closeRemote", "done"} =>
                /\ forward'[RelayConn] = "closed"
                /\ delivered'["local"] = delivered["local"]
          /\ cpc[RelayConn][d] = "done" =>
                /\ remote'[RelayConn] = "closed"
                /\ delivered' = delivered]_vars

\* the local peer has closed its write direction only, the Relay has closed
\* both connections and ended, and bytes the remote peer wrote have not been
\* written to the local side
Wit_C20 ==
    /\ peer["local"] = "eof"
    /\ peer["remote"] = "open"
    /\ \A d \in Dirs : cpc[RelayConn][d] = "done"
    /\ forward[RelayConn] = "closed" /\ remote[RelayConn] = "closed"
    /\ rbuf["remote"] # <<>>
    /\ Len(delivered["local"]) < Len(sent["remote"])

====
